---- MODULE Spec2Model ----
(***************************************************************************)
(* kemonoDownloader: the download engines (downloader_async.py,            *)
(* downloader.py) and the listing crawl (scraper_selenium.py, scraper.py,  *)
(* parser.py) as state machines.                                           *)
(*                                                                         *)
(* Spec        one or two runs of AsyncImageDownloader.download_user_images*)
(*             (a fresh engine per run, the destination directory kept).   *)
(* SpecRun     one run of it; SpecLive the same with fairness.             *)
(* SpecReuse   download_user_images called twice on one engine.            *)
(* SpecSync    one run of ImageDownloader.download_user_images.            *)
(* SpecCrawl   one call of get_user_posts.                                 *)
(* SpecOffset  one call of KemonoParser.get_pagination_offset.             *)
(* SpecExtract the thread pool of async_main's phase 2.                    *)
(* SpecMain    async_main from its start to the end of the process.        *)
(* SpecName    one call of _generate_filename.                             *)
(*                                                                         *)
(* Time is counted in ticks.  The configuration values of config.py are    *)
(* scaled down so that the state space is finite and small; the scaling    *)
(* keeps their order: MAX_CONCURRENT_DOWNLOADS < BATCH_SIZE (30 < 50) and  *)
(* RATE_LIMIT_DELAY < BATCH_PAUSE (0.02 s < 0.3 s).                        *)
(***************************************************************************)
EXTENDS Integers, Sequences, FiniteSets, TLC

\* ------------------------------------------------------------- configuration

\* config.py:8
MAX_RETRIES == 3
\* config.py:15 (30 in the source, scaled)
MAX_CONCURRENT_DOWNLOADS == 2
\* the existing-file check switched off
SkipDisabled == FALSE
\* config.py:16
SKIP_EXISTING == TRUE
\* config.py:20 (0.02 s in the source; here in ticks)
RATE_LIMIT_DELAY == 2
\* config.py:21 (50 in the source, scaled)
BATCH_SIZE == 3
\* config.py:22 (0.3 s in the source; here in ticks)
BATCH_PAUSE == 3
\* main.py:112, max_workers (5 in the source, scaled)
MAX_WORKERS == 2

\* ------------------------------------------------------------------- bounds

\* the largest number of images (download jobs) of one run
MaxJobs == 4
\* the largest size of a downloaded file
MaxSize == 1
\* the largest number of listing pages one crawl fetches
MaxPages == 4
\* the largest number of posts whose media are extracted
MaxPosts == 3

\* ------------------------------------------------------------------- inputs

\* posts_data holds one entry per post; post p is written to post_dir p
PostIds == {1, 2}
\* the file names _generate_filename gives the image URLs of a post
FileNames == {"a", "b"}

RECURSIVE SeqsUpTo(_, _)
SeqsUpTo(S, n) ==
    IF n = 0 THEN {<<>>}
    ELSE LET shorter == SeqsUpTo(S, n - 1)
         IN  shorter \cup {Append(s, x) : s \in {t \in shorter : Len(t) = n - 1}, x \in S}

\* the lists over FileNames that name "a" before "b" (the names are in order of
\* first use: which images of a post share a file name is all that matters)
InOrderOfUse(s) == \A k \in 1..Len(s) : s[k] = "b" => \E h \in 1..(k - 1) : s[h] = "a"

\* posts_data: for each post its list of images, each image standing for the
\* file name its URL is given; the second post has no image or one; at most
\* MaxJobs images in all
PostsInputs ==
    {ps \in [PostIds -> SeqsUpTo(FileNames, MaxJobs)] :
        /\ InOrderOfUse(ps[1])
        /\ ps[2] \in {<<>>, <<"a">>}
        /\ Len(ps[1]) + Len(ps[2]) <= MaxJobs}

Paths == PostIds \X FileNames

\* Python's None, where an integer is expected
None == -1

VARIABLES
    posts,        \* posts_data, the argument of download_user_images
    exists,       \* the destination directory: which paths hold a file
    run,          \* 1: the first run, 2: a second run on a fresh engine
    mainPc,       \* where download_user_images / _download_with_batches stands
    batchStart,   \* i of _download_with_batches (0-based index of the batch's first task)
    pauseLeft,    \* ticks left of asyncio.sleep(BATCH_PAUSE)
    stats,        \* self.stats
    semValue,     \* self.semaphore: the free slots
    waiters,      \* self.semaphore: the jobs waiting for a slot, first come first
    sinceLast,    \* time.time() - self.last_download_time, capped at RATE_LIMIT_DELAY
    pc,           \* each job's position in download_image
    sleepLeft,    \* ticks left of a job's asyncio.sleep at the rate gate
    outcome,      \* each job's outcome
    attempts,     \* history: the requests each job issued in this run
    slotsTaken,   \* history: how often each job acquired a slot in this run
    gateVisits,   \* history: how often each job read the rate-gate timestamp in this run
    minGap,       \* history: the least time between two successive request starts (capped)
    tally,        \* history: what each job added to downloaded, skipped and failed
    errors,       \* history: the transport errors each job's requests met in this run
    firstClean,   \* history: no job of the first run ended Failed
    cur,          \* ImageDownloader: the job the loop of lines 61-84 is at
    attempt,      \* ImageDownloader: attempt of the loop of line 112
    crawlPc,      \* get_user_posts: "loop" | "done" (returned) | "raised"
    all_posts,    \* get_user_posts: all_posts
    offset,       \* get_user_posts: offset
    page,         \* get_user_posts: page
    extractor,    \* what self.parser is: "parser" (KemonoParser) | "stub"
    seen,         \* history: the post links of the pages parsed, in order
    nexts,        \* history: the next offsets the extractor returned, in order
    offsets,      \* history: the offset of each loop iteration, in order
    overlapped,   \* history: a page linked a post that an earlier page had linked
    crawlFailure, \* history: the step of the last iteration that failed, or "none"
    accumulated,  \* history: all_posts as it was before the last iteration
    exPc,         \* async_main, phase 2: "idle" | "submit" | "collect" | "done"
    nPosts,       \* len(post_urls), after the cap of lines 62-64
    submitted,    \* how many tasks line 115 has submitted
    queue,        \* the executor's work queue, first in first out
    idleSem,      \* the executor's count of idle worker threads
    fut,          \* each future: "none" | "queued" | "running" | "done" | "yielded"
    result,       \* each future's result
    wstate,       \* each worker thread: "absent" | "idle" | "scraper" | "extract" | "exited"
    wtask,        \* the post a worker thread is processing, or 0
    thread_scraper, \* thread_local.scraper of each worker thread: "none" | "open"
    posts_data,   \* posts_data of lines 110-129
    extraction,   \* history: how the extraction of each post ended
    mPc,          \* async_main: "idle" | "start" | "init" | "crawl" | "extract" | "download" | "exited"
    no_skip_existing, \* args.no_skip_existing
    configSkip,   \* config.SKIP_EXISTING, the attribute of the config module
    scraper,      \* the scraper of line 46: "none" | "open" | "closed"
    summary,      \* what print_summary has printed
    exitCode,     \* the exit status of the process, None while it runs
    ending,       \* history: how the process came to its end
    url,          \* _generate_filename: url, a sequence of characters
    index,        \* _generate_filename: index
    filename,     \* _generate_filename: the value returned, NoName before the call
    ret,          \* what download_user_images returned
    pauses,       \* history: the pauses _download_with_batches has made in this call
    pageHtml      \* html, the page get_pagination_offset is given

vars == <<posts, exists, run, mainPc, batchStart, pauseLeft, stats, semValue, waiters,
          sinceLast, pc, sleepLeft, outcome, attempts, slotsTaken, gateVisits, minGap,
          tally, errors, firstClean, cur, attempt, crawlPc, all_posts, offset, page,
          extractor, seen, nexts, offsets, overlapped, crawlFailure, accumulated,
          exPc, nPosts, submitted, queue, idleSem, fut, result, wstate, wtask,
          thread_scraper, posts_data, extraction, mPc, no_skip_existing, configSkip,
          scraper, summary, exitCode, ending, url, index, filename, ret, pauses, pageHtml>>

\* the variables of the synchronous engine alone, and of the crawl
syncOnly == <<cur, attempt>>
crawlVars == <<crawlPc, all_posts, offset, page, extractor, seen, nexts, offsets,
               overlapped, crawlFailure, accumulated, pageHtml>>
\* the variables of async_main
mainCtl == <<mPc, no_skip_existing, configSkip, scraper, summary, exitCode, ending>>
extractVars == <<exPc, nPosts, submitted, queue, idleSem, fut, result, wstate, wtask,
                 thread_scraper, posts_data, extraction>>
mainVars == <<extractVars, mainCtl>>
\* the variables of a call of _generate_filename
nameVars == <<url, index, filename>>

\* ------------------------------------------------------------------ helpers

Min(a, b) == IF a < b THEN a ELSE b

\* the (post, file name) pairs in the order lines 77-91 create the tasks
Tasks(ps) ==
    [k \in 1..(Len(ps[1]) + Len(ps[2])) |->
        IF k <= Len(ps[1]) THEN <<1, ps[1][k]>> ELSE <<2, ps[2][k - Len(ps[1])]>>]

\* total_images = sum(len(post['images']) for post in posts_data)
TotalImages(ps) == Len(ps[1]) + Len(ps[2])

Jobs == 1..MaxJobs
NumTasks == Len(Tasks(posts))
Live == 1..NumTasks
\* filepath = os.path.join(save_dir, filename)
PathOf(j) == Tasks(posts)[j]

ZeroStats == [total |-> 0, downloaded |-> 0, skipped |-> 0, failed |-> 0, bytes |-> 0]
ZeroTally == [downloaded |-> 0, skipped |-> 0, failed |-> 0]

Failed(o) == o \in {"failed_request", "failed_file"}

\* download_user_images has not returned
NoReturn == [type |-> "none", int |-> 0, dict |-> ZeroStats]
\* downloader_async.py line 96: return self.stats['downloaded']
AsyncReturn(st) == [type |-> "int", int |-> st.downloaded, dict |-> ZeroStats]
\* downloader.py line 86: return self.get_stats(), the counters of self.stats
\* (with success_rate and total_size computed from them)
SyncReturn(st) == [type |-> "dict", int |-> 0, dict |-> st]

\* what a step of job j added to the counters
Attribute(j) ==
    tally' = [tally EXCEPT ![j] =
        [downloaded |-> @.downloaded + (stats'.downloaded - stats.downloaded),
         skipped    |-> @.skipped + (stats'.skipped - stats.skipped),
         failed     |-> @.failed + (stats'.failed - stats.failed)]]

\* ----------------------------------------------------- AsyncImageDownloader

FreshEngine ==
    /\ stats = ZeroStats
    /\ semValue = MAX_CONCURRENT_DOWNLOADS
    /\ waiters = <<>>
    /\ sinceLast = RATE_LIMIT_DELAY
    /\ mainPc = "init"
    /\ batchStart = 0
    /\ pauseLeft = 0
    /\ pauses = 0
    /\ pc = [j \in Jobs |-> "created"]
    /\ sleepLeft = [j \in Jobs |-> 0]
    /\ outcome = [j \in Jobs |-> "none"]
    /\ attempts = [j \in Jobs |-> 0]
    /\ slotsTaken = [j \in Jobs |-> 0]
    /\ gateVisits = [j \in Jobs |-> 0]
    /\ minGap = RATE_LIMIT_DELAY
    /\ tally = [j \in Jobs |-> ZeroTally]
    /\ errors = [j \in Jobs |-> 0]
    /\ ret = NoReturn

\* a page without article and without pagination link
NoHtml == [articles |-> <<>>, next_button |-> None, links |-> {}]

\* the synchronous engine and the crawl stand still
NoSync == cur = 0 /\ attempt = 0
NoCrawl ==
    /\ pageHtml = NoHtml
    /\ crawlPc = "done"
    /\ all_posts = <<>>
    /\ offset = 0
    /\ page = 1
    /\ extractor = "parser"
    /\ seen = <<>>
    /\ nexts = <<>>
    /\ offsets = <<>>
    /\ overlapped = FALSE
    /\ crawlFailure = "none"
    /\ accumulated = <<>>

\* process_post_sync returned None
NoResult == [post_id |-> 0, images |-> <<>>]

Workers == 1..MAX_WORKERS
PostIdx == 1..MaxPosts

\* phase 2 of async_main before line 112: no executor, no future, no thread
BeforeExtraction ==
    /\ submitted = 0
    /\ queue = <<>>
    /\ idleSem = 0
    /\ fut = [t \in PostIdx |-> "none"]
    /\ result = [t \in PostIdx |-> NoResult]
    /\ wstate = [w \in Workers |-> "absent"]
    /\ wtask = [w \in Workers |-> 0]
    /\ thread_scraper = [w \in Workers |-> "none"]
    /\ posts_data = <<>>
    /\ extraction = [t \in PostIdx |-> "none"]

\* nothing was printed by print_summary
NoSummary == [printed |-> FALSE, stats |-> ZeroStats]

\* async_main outside its phase 2: not followed
NoMainCtl ==
    /\ mPc = "idle"
    /\ no_skip_existing = FALSE
    /\ configSkip = SKIP_EXISTING
    /\ scraper = "none"
    /\ summary = NoSummary
    /\ exitCode = None
    /\ ending = [why |-> "none", at |-> "idle"]

\* _generate_filename has not returned
NoName == <<"\t">>

\* no call of _generate_filename is followed
NoCall ==
    /\ url = <<>>
    /\ index = 1
    /\ filename = NoName

\* async_main is not part of the run
NoMain ==
    /\ exPc = "idle"
    /\ nPosts = 0
    /\ BeforeExtraction
    /\ NoMainCtl
    /\ NoCall

Init ==
    /\ posts \in PostsInputs
    /\ exists \in {e \in [Paths -> BOOLEAN] :
                      \A p \in Paths : e[p] => \E k \in 1..Len(Tasks(posts)) : Tasks(posts)[k] = p}
    /\ run = 1
    /\ firstClean = FALSE
    /\ FreshEngine
    /\ NoSync
    /\ NoCrawl
    /\ NoMain

\* the tasks of tasks[i:i + BATCH_SIZE]
Batch(i) == {j \in Live : i < j /\ j <= i + BATCH_SIZE}

\* asyncio.gather(*batch): every coroutine of the batch becomes a running task
Gather(i) ==
    /\ pc' = [j \in Jobs |-> IF j \in Batch(i) THEN "ready" ELSE pc[j]]
    /\ batchStart' = i
    /\ mainPc' = "gather"

\* download_user_images up to the first await of _download_with_batches
StartRun ==
    /\ mainPc = "init"
    /\ stats' = [stats EXCEPT !.total = TotalImages(posts)]
    /\ IF NumTasks > 0
       THEN Gather(0)
       ELSE /\ mainPc' = "returned"
            /\ UNCHANGED <<pc, batchStart>>
    /\ ret' = IF NumTasks > 0 THEN ret ELSE AsyncReturn(stats')
    /\ UNCHANGED <<posts, exists, run, pauseLeft, pauses, semValue, waiters, sinceLast, sleepLeft,
                   outcome, attempts, slotsTaken, gateVisits, minGap, tally, firstClean, errors,
                   syncOnly, crawlVars, mainVars, nameVars>>

\* a join that returns with the first task of the batch to finish
BatchDrainedAny == \E j \in Batch(batchStart) : pc[j] = "done"

\* a join on every task of the run, those of later batches too
BatchDrainedAll == \A j \in Live : pc[j] = "done"

\* gather returns when every task of the batch has returned
BatchDrained == \A j \in Batch(batchStart) : pc[j] = "done"

\* a pause after every batch, the last one too when it is a full one
MoreBatchesOrFull(i) == i + BATCH_SIZE <= NumTasks

\* line 118: if i + BATCH_SIZE < total
MoreBatches(i) == i + BATCH_SIZE < NumTasks

\* lines 112-120: the batch is joined; pause unless it was the last one
BatchJoin ==
    /\ mainPc = "gather"
    /\ BatchDrained
    /\ IF MoreBatches(batchStart)
       THEN /\ mainPc' = "pause"
            /\ pauseLeft' = BATCH_PAUSE
            /\ pauses' = pauses + 1
            /\ UNCHANGED ret
       ELSE /\ mainPc' = "returned"
            /\ ret' = AsyncReturn(stats)
            /\ UNCHANGED <<pauseLeft, pauses>>
    /\ UNCHANGED <<posts, exists, run, batchStart, stats, semValue, waiters, sinceLast, pc,
                   sleepLeft, outcome, attempts, slotsTaken, gateVisits, minGap, tally,
                   firstClean, errors,
                   syncOnly, crawlVars, mainVars, nameVars>>

\* asyncio.sleep(BATCH_PAUSE) is over: the next iteration gathers the next batch
PauseOver ==
    /\ mainPc = "pause"
    /\ pauseLeft = 0
    /\ Gather(batchStart + BATCH_SIZE)
    /\ UNCHANGED <<posts, exists, run, pauseLeft, pauses, stats, semValue, waiters, sinceLast,
                   sleepLeft, outcome, attempts, slotsTaken, gateVisits, minGap, tally,
                   firstClean, errors,
                   syncOnly, crawlVars, mainVars, nameVars, ret>>

\* a semaphore that admits every job
SemNeverLocked == FALSE

\* asyncio.Semaphore.locked(): no free slot, or earlier jobs are waiting
SemLocked == semValue = 0 \/ waiters # <<>>

\* the slot held, the request issued at once: the clock is not read
EnterGateUngated(j) ==
    /\ slotsTaken' = [slotsTaken EXCEPT ![j] = @ + 1]
    /\ pc' = [pc EXCEPT ![j] = "request"]
    /\ sinceLast' = 0
    /\ minGap' = Min(minGap, sinceLast)
    /\ attempts' = [attempts EXCEPT ![j] = @ + 1]
    /\ UNCHANGED <<sleepLeft, gateVisits>>

\* lines 149-154 with the slot held: read the clock, sleep for the rest of the
\* delay or take the timestamp and issue the request
EnterGate(j) ==
    /\ slotsTaken' = [slotsTaken EXCEPT ![j] = @ + 1]
    /\ gateVisits' = [gateVisits EXCEPT ![j] = @ + 1]
    /\ IF sinceLast < RATE_LIMIT_DELAY
       THEN /\ pc' = [pc EXCEPT ![j] = "sleep"]
            /\ sleepLeft' = [sleepLeft EXCEPT ![j] = RATE_LIMIT_DELAY - sinceLast]
            /\ UNCHANGED <<sinceLast, minGap, attempts>>
       ELSE /\ pc' = [pc EXCEPT ![j] = "request"]
            /\ sinceLast' = 0
            /\ minGap' = Min(minGap, sinceLast)
            /\ attempts' = [attempts EXCEPT ![j] = @ + 1]
            /\ UNCHANGED sleepLeft

\* download_image with the existing-file check made inside "async with
\* self.semaphore", after the rate gate was read
BeginSlotFirst(j) ==
    /\ mainPc = "gather"
    /\ pc[j] = "ready"
    /\ \A i \in 1..(j - 1) : pc[i] # "ready"
    /\ IF semValue = 0 \/ waiters # <<>>
       THEN /\ pc' = [pc EXCEPT ![j] = "waitslot"]
            /\ waiters' = Append(waiters, j)
            /\ UNCHANGED <<stats, semValue, sinceLast, sleepLeft, outcome, attempts,
                           slotsTaken, gateVisits, minGap>>
       ELSE IF SKIP_EXISTING /\ exists[PathOf(j)]
       THEN /\ stats' = [stats EXCEPT !.skipped = @ + 1]
            /\ pc' = [pc EXCEPT ![j] = "done"]
            /\ outcome' = [outcome EXCEPT ![j] = "skipped"]
            /\ slotsTaken' = [slotsTaken EXCEPT ![j] = @ + 1]
            /\ gateVisits' = [gateVisits EXCEPT ![j] = @ + 1]
            /\ UNCHANGED <<semValue, waiters, sinceLast, sleepLeft, attempts, minGap>>
       ELSE /\ semValue' = semValue - 1
            /\ EnterGate(j)
            /\ UNCHANGED <<stats, waiters, outcome>>
    /\ Attribute(j)
    /\ UNCHANGED <<posts, exists, run, mainPc, batchStart, pauseLeft, pauses, firstClean, errors,
                   syncOnly, crawlVars, mainVars, nameVars, ret>>

\* lines 136-154: download_image from its start to its first suspension; the
\* event loop runs the tasks gather created in the order of the batch
Begin(j) ==
    /\ mainPc = "gather"
    /\ pc[j] = "ready"
    /\ \A i \in 1..(j - 1) : pc[i] # "ready"
    /\ IF SKIP_EXISTING /\ exists[PathOf(j)]
       THEN /\ stats' = [stats EXCEPT !.skipped = @ + 1]
            /\ pc' = [pc EXCEPT ![j] = "done"]
            /\ outcome' = [outcome EXCEPT ![j] = "skipped"]
            /\ UNCHANGED <<semValue, waiters, sinceLast, sleepLeft, attempts, slotsTaken,
                           gateVisits, minGap>>
       ELSE IF SemLocked
       THEN /\ pc' = [pc EXCEPT ![j] = "waitslot"]
            /\ waiters' = Append(waiters, j)
            /\ UNCHANGED <<stats, semValue, sinceLast, sleepLeft, outcome, attempts,
                           slotsTaken, gateVisits, minGap>>
       ELSE /\ semValue' = semValue - 1
            /\ EnterGate(j)
            /\ UNCHANGED <<stats, waiters, outcome>>
    /\ Attribute(j)
    /\ UNCHANGED <<posts, exists, run, mainPc, batchStart, pauseLeft, pauses, firstClean, errors,
                   syncOnly, crawlVars, mainVars, nameVars, ret>>

\* Semaphore.acquire resumes: the first waiter takes the slot a release freed
Acquire(j) ==
    /\ pc[j] = "waitslot"
    /\ waiters # <<>>
    /\ Head(waiters) = j
    /\ semValue > 0
    /\ semValue' = semValue - 1
    /\ waiters' = Tail(waiters)
    /\ EnterGate(j)
    /\ UNCHANGED <<posts, exists, run, mainPc, batchStart, pauseLeft, pauses, stats, outcome, tally,
                   firstClean, errors,
                   syncOnly, crawlVars, mainVars, nameVars, ret>>

\* line 154 after the sleep of line 152: take the timestamp, issue the request
GateWake(j) ==
    /\ pc[j] = "sleep"
    /\ sleepLeft[j] = 0
    /\ pc' = [pc EXCEPT ![j] = "request"]
    /\ sinceLast' = 0
    /\ minGap' = Min(minGap, sinceLast)
    /\ attempts' = [attempts EXCEPT ![j] = @ + 1]
    /\ UNCHANGED <<posts, exists, run, mainPc, batchStart, pauseLeft, pauses, stats, semValue,
                   waiters, sleepLeft, outcome, slotsTaken, gateVisits, tally, firstClean, errors,
                   syncOnly, crawlVars, mainVars, nameVars, ret>>

\* a failure that releases the slot and is counted nowhere
FailUncounted(j, why) ==
    /\ stats' = stats
    /\ semValue' = semValue + 1
    /\ pc' = [pc EXCEPT ![j] = "done"]
    /\ outcome' = [outcome EXCEPT ![j] = why]
    /\ Attribute(j)

\* a failure that is counted and keeps its slot
FailKeepsSlot(j, why) ==
    /\ stats' = [stats EXCEPT !.failed = @ + 1]
    /\ semValue' = semValue
    /\ pc' = [pc EXCEPT ![j] = "done"]
    /\ outcome' = [outcome EXCEPT ![j] = why]
    /\ Attribute(j)

\* lines 173-176 and the end of "async with self.semaphore": count the failure,
\* release the slot
Fail(j, why) ==
    /\ stats' = [stats EXCEPT !.failed = @ + 1]
    /\ semValue' = semValue + 1
    /\ pc' = [pc EXCEPT ![j] = "done"]
    /\ outcome' = [outcome EXCEPT ![j] = why]
    /\ Attribute(j)

\* lines 158-159: session.get or raise_for_status raises
RequestFails(j) ==
    /\ pc[j] = "request"
    /\ errors' = [errors EXCEPT ![j] = @ + 1]
    /\ Fail(j, "failed_request")
    /\ UNCHANGED <<posts, exists, run, mainPc, batchStart, pauseLeft, pauses, waiters, sinceLast,
                   sleepLeft, attempts, slotsTaken, gateVisits, minGap, firstClean,
                   syncOnly, crawlVars, mainVars, nameVars, ret>>

\* line 162: the response is good, aiofiles.open raises
OpenFails(j) ==
    /\ pc[j] = "request"
    /\ Fail(j, "failed_file")
    /\ UNCHANGED <<posts, exists, run, mainPc, batchStart, pauseLeft, pauses, waiters, sinceLast,
                   sleepLeft, attempts, slotsTaken, gateVisits, minGap, firstClean, errors,
                   syncOnly, crawlVars, mainVars, nameVars, ret>>

\* line 162: the response is good and the destination file is opened for writing
RequestOk(j) ==
    /\ pc[j] = "request"
    /\ pc' = [pc EXCEPT ![j] = "write"]
    /\ exists' = [exists EXCEPT ![PathOf(j)] = TRUE]
    /\ UNCHANGED <<posts, run, mainPc, batchStart, pauseLeft, pauses, stats, semValue, waiters,
                   sinceLast, sleepLeft, outcome, attempts, slotsTaken, gateVisits, minGap,
                   tally, errors, firstClean, syncOnly, crawlVars, mainVars, nameVars, ret>>

\* lines 163-164: reading a chunk or writing it raises; the file stays
WriteFails(j) ==
    /\ pc[j] = "write"
    /\ Fail(j, "failed_file")
    /\ UNCHANGED <<posts, exists, run, mainPc, batchStart, pauseLeft, pauses, waiters, sinceLast,
                   sleepLeft, attempts, slotsTaken, gateVisits, minGap, firstClean, errors,
                   syncOnly, crawlVars, mainVars, nameVars, ret>>

\* the size of the file stored as the byte count, not added to it
CountDownloadAssigned(st, size) == [st EXCEPT !.bytes = size, !.downloaded = @ + 1]

\* lines 166-168: stats['bytes'] += file_size; stats['downloaded'] += 1 (no
\* await between the reading and the writing of a counter)
CountDownload(st, size) == [st EXCEPT !.bytes = @ + size, !.downloaded = @ + 1]

\* lines 166-171: the body is written; count the bytes and the download
WriteDone(j) ==
    /\ pc[j] = "write"
    /\ \E size \in 1..MaxSize : stats' = CountDownload(stats, size)
    /\ semValue' = semValue + 1
    /\ pc' = [pc EXCEPT ![j] = "done"]
    /\ outcome' = [outcome EXCEPT ![j] = "downloaded"]
    /\ Attribute(j)
    /\ UNCHANGED <<posts, exists, run, mainPc, batchStart, pauseLeft, pauses, waiters, sinceLast,
                   sleepLeft, attempts, slotsTaken, gateVisits, minGap, firstClean, errors,
                   syncOnly, crawlVars, mainVars, nameVars, ret>>

\* a tick of the clock: every running timer comes one tick closer; a task that
\* is ready to start and a sleep whose delay has passed run before the clock
\* moves on
Tick ==
    /\ \/ pauseLeft > 0
       \/ sinceLast < RATE_LIMIT_DELAY
       \/ \E j \in Live : sleepLeft[j] > 0
    /\ ~ (mainPc = "pause" /\ pauseLeft = 0)
    /\ ~ \E j \in Live : pc[j] = "ready"
    /\ ~ \E j \in Live : pc[j] = "sleep" /\ sleepLeft[j] = 0
    /\ pauseLeft' = IF pauseLeft > 0 THEN pauseLeft - 1 ELSE 0
    /\ sinceLast' = Min(RATE_LIMIT_DELAY, sinceLast + 1)
    /\ sleepLeft' = [j \in Jobs |-> IF sleepLeft[j] > 0 THEN sleepLeft[j] - 1 ELSE 0]
    /\ UNCHANGED <<posts, exists, run, mainPc, batchStart, pauses, stats, semValue, waiters, pc,
                   outcome, attempts, slotsTaken, gateVisits, minGap, tally, firstClean, errors,
                   syncOnly, crawlVars, mainVars, nameVars, ret>>

\* the program is run again on the same directory: a fresh engine, the same jobs
SecondRun ==
    /\ run = 1
    /\ mainPc = "returned"
    /\ run' = 2
    /\ firstClean' = (stats.failed = 0)
    /\ stats' = ZeroStats
    /\ semValue' = MAX_CONCURRENT_DOWNLOADS
    /\ waiters' = <<>>
    /\ sinceLast' = RATE_LIMIT_DELAY
    /\ mainPc' = "init"
    /\ batchStart' = 0
    /\ pauseLeft' = 0
    /\ pauses' = 0
    /\ pc' = [j \in Jobs |-> "created"]
    /\ sleepLeft' = [j \in Jobs |-> 0]
    /\ outcome' = [j \in Jobs |-> "none"]
    /\ attempts' = [j \in Jobs |-> 0]
    /\ slotsTaken' = [j \in Jobs |-> 0]
    /\ gateVisits' = [j \in Jobs |-> 0]
    /\ minGap' = RATE_LIMIT_DELAY
    /\ tally' = [j \in Jobs |-> ZeroTally]
    /\ errors' = [j \in Jobs |-> 0]
    /\ ret' = NoReturn
    /\ UNCHANGED <<posts, exists, syncOnly, crawlVars, mainVars, nameVars>>

Next ==
    \/ StartRun
    \/ BatchJoin
    \/ PauseOver
    \/ \E j \in Live : Begin(j)
    \/ \E j \in Live : Acquire(j)
    \/ \E j \in Live : GateWake(j)
    \/ \E j \in Live : RequestFails(j)
    \/ \E j \in Live : OpenFails(j)
    \/ \E j \in Live : RequestOk(j)
    \/ \E j \in Live : WriteFails(j)
    \/ \E j \in Live : WriteDone(j)
    \/ Tick
    \/ SecondRun

Spec == Init /\ [][Next]_vars

\* download_user_images is called again on the same AsyncImageDownloader with
\* the same posts_data: lines 52-91 set stats['total'] and create new
\* coroutines; stats, semaphore and last_download_time are those of __init__
\* and of the first call
Reinvoke ==
    /\ run = 1
    /\ mainPc = "returned"
    /\ run' = 2
    /\ firstClean' = (stats.failed = 0)
    /\ mainPc' = "init"
    /\ batchStart' = 0
    /\ pauseLeft' = 0
    /\ pauses' = 0
    /\ pc' = [j \in Jobs |-> "created"]
    /\ sleepLeft' = [j \in Jobs |-> 0]
    /\ outcome' = [j \in Jobs |-> "none"]
    /\ attempts' = [j \in Jobs |-> 0]
    /\ slotsTaken' = [j \in Jobs |-> 0]
    /\ gateVisits' = [j \in Jobs |-> 0]
    /\ minGap' = RATE_LIMIT_DELAY
    /\ tally' = [j \in Jobs |-> ZeroTally]
    /\ errors' = [j \in Jobs |-> 0]
    /\ ret' = NoReturn
    /\ UNCHANGED <<posts, exists, stats, semValue, waiters, sinceLast, syncOnly, crawlVars,
                   mainVars, nameVars>>

NextReuse ==
    \/ StartRun
    \/ BatchJoin
    \/ PauseOver
    \/ \E j \in Live : Begin(j)
    \/ \E j \in Live : Acquire(j)
    \/ \E j \in Live : GateWake(j)
    \/ \E j \in Live : RequestFails(j)
    \/ \E j \in Live : OpenFails(j)
    \/ \E j \in Live : RequestOk(j)
    \/ \E j \in Live : WriteFails(j)
    \/ \E j \in Live : WriteDone(j)
    \/ Tick
    \/ Reinvoke

SpecReuse == Init /\ [][NextReuse]_vars

\* one call of download_user_images on a fresh engine
NextRun ==
    \/ StartRun
    \/ BatchJoin
    \/ PauseOver
    \/ \E j \in Live : Begin(j)
    \/ \E j \in Live : Acquire(j)
    \/ \E j \in Live : GateWake(j)
    \/ \E j \in Live : RequestFails(j)
    \/ \E j \in Live : OpenFails(j)
    \/ \E j \in Live : RequestOk(j)
    \/ \E j \in Live : WriteFails(j)
    \/ \E j \in Live : WriteDone(j)
    \/ Tick

SpecRun == Init /\ [][NextRun]_vars

\* a step of the event loop: a callback that is ready to run
LoopStep ==
    \/ StartRun
    \/ BatchJoin
    \/ PauseOver
    \/ \E j \in Live : Begin(j)
    \/ \E j \in Live : Acquire(j)
    \/ \E j \in Live : GateWake(j)

\* session.get of job j returns or fails (and with total=TIMEOUT, line 68, it
\* fails after TIMEOUT at the latest)
RequestEnds(j) == RequestFails(j) \/ OpenFails(j) \/ RequestOk(j)

\* the reading of the body and the writing of the file of job j end
WriteEnds(j) == WriteFails(j) \/ WriteDone(j)

\* the event loop runs every callback that is ready, time passes, and every
\* request and every write returns or fails
Fairness ==
    /\ WF_vars(LoopStep)
    /\ WF_vars(Tick)
    /\ \A j \in Jobs : WF_vars(RequestEnds(j))
    /\ \A j \in Jobs : WF_vars(WriteEnds(j))

SpecLive == Init /\ [][NextRun]_vars /\ Fairness

\* ------------------------------------------- ImageDownloader (downloader.py)

asyncOnly == <<run, batchStart, pauseLeft, pauses, semValue, waiters, sinceLast, sleepLeft,
               slotsTaken, gateVisits, minGap, firstClean>>

InitSync ==
    /\ posts \in PostsInputs
    /\ exists \in {e \in [Paths -> BOOLEAN] :
                      \A p \in Paths : e[p] => \E k \in 1..Len(Tasks(posts)) : Tasks(posts)[k] = p}
    /\ run = 1
    /\ firstClean = FALSE
    /\ FreshEngine
    /\ NoSync
    /\ NoCrawl
    /\ NoMain

\* lines 47-61: total is set and the loop over the posts' images begins
SyncStart ==
    /\ mainPc = "init"
    /\ stats' = [stats EXCEPT !.total = TotalImages(posts)]
    /\ IF NumTasks > 0
       THEN mainPc' = "loop" /\ cur' = 1 /\ ret' = ret
       ELSE mainPc' = "returned" /\ cur' = cur /\ ret' = SyncReturn(stats')
    /\ UNCHANGED <<posts, exists, pc, outcome, attempts, tally, errors, attempt, asyncOnly,
                   crawlVars, mainVars, nameVars>>

\* lines 80-84 for job j with download_image's result, then the next image or
\* the end of the loops
Return(j, success, how, st) ==
    /\ stats' = IF success THEN [st EXCEPT !.downloaded = @ + 1] ELSE st
    /\ pc' = [pc EXCEPT ![j] = "done"]
    /\ outcome' = [outcome EXCEPT ![j] = how]
    /\ Attribute(j)
    /\ attempt' = 0
    /\ IF j < NumTasks
       THEN cur' = j + 1 /\ mainPc' = mainPc /\ ret' = ret
       ELSE cur' = cur /\ mainPc' = "returned" /\ ret' = SyncReturn(stats')

\* lines 142-145: the outer handler counts the failure and returns False
Raise(j, how) == Return(j, FALSE, how, [stats EXCEPT !.failed = @ + 1])

\* lines 101-112: the existing-file check; a skip returns True
SyncCheck ==
    /\ mainPc = "loop"
    /\ pc[cur] = "created"
    /\ IF SKIP_EXISTING /\ exists[PathOf(cur)]
       THEN Return(cur, TRUE, "skipped", [stats EXCEPT !.skipped = @ + 1])
       ELSE /\ pc' = [pc EXCEPT ![cur] = "request"]
            /\ attempt' = 0
            /\ UNCHANGED <<stats, outcome, tally, cur, mainPc, ret>>
    /\ UNCHANGED <<posts, exists, attempts, errors, asyncOnly, crawlVars, mainVars, nameVars>>

\* a retry that gives up one attempt early
RetryAgainEarly(a) == a < MAX_RETRIES - 2

\* line 136: another attempt follows this one
RetryAgain(a) == a < MAX_RETRIES - 1

\* lines 135-140: a RequestException in attempt number attempt
Retry(j) ==
    IF RetryAgain(attempt)
    THEN /\ attempt' = attempt + 1
         /\ pc' = [pc EXCEPT ![j] = "request"]
         /\ UNCHANGED <<stats, outcome, tally, cur, mainPc, ret>>
    ELSE Raise(j, "failed_request")

\* lines 114-121: requests.get or raise_for_status raises a RequestException
SyncRequestFails ==
    /\ mainPc = "loop"
    /\ pc[cur] = "request"
    /\ attempts' = [attempts EXCEPT ![cur] = @ + 1]
    /\ errors' = [errors EXCEPT ![cur] = @ + 1]
    /\ Retry(cur)
    /\ UNCHANGED <<posts, exists, asyncOnly, crawlVars, mainVars, nameVars>>

\* line 124: the response is good, open raises (no RequestException: no retry)
SyncOpenFails ==
    /\ mainPc = "loop"
    /\ pc[cur] = "request"
    /\ attempts' = [attempts EXCEPT ![cur] = @ + 1]
    /\ Raise(cur, "failed_file")
    /\ UNCHANGED <<posts, exists, errors, asyncOnly, crawlVars, mainVars, nameVars>>

\* line 124: the response is good and the destination file is opened
SyncRequestOk ==
    /\ mainPc = "loop"
    /\ pc[cur] = "request"
    /\ attempts' = [attempts EXCEPT ![cur] = @ + 1]
    /\ pc' = [pc EXCEPT ![cur] = "write"]
    /\ exists' = [exists EXCEPT ![PathOf(cur)] = TRUE]
    /\ UNCHANGED <<posts, stats, outcome, tally, errors, cur, attempt, mainPc, asyncOnly,
                   crawlVars, mainVars, nameVars, ret>>

\* line 125: iter_content raises a RequestException while the body is read
SyncStreamFails ==
    /\ mainPc = "loop"
    /\ pc[cur] = "write"
    /\ errors' = [errors EXCEPT ![cur] = @ + 1]
    /\ Retry(cur)
    /\ UNCHANGED <<posts, exists, attempts, asyncOnly, crawlVars, mainVars, nameVars>>

\* line 127: f.write raises (no RequestException: no retry)
SyncWriteFails ==
    /\ mainPc = "loop"
    /\ pc[cur] = "write"
    /\ Raise(cur, "failed_file")
    /\ UNCHANGED <<posts, exists, attempts, errors, asyncOnly, crawlVars, mainVars, nameVars>>

\* lines 129-133: the body is written; count the bytes and return True
SyncWriteDone ==
    /\ mainPc = "loop"
    /\ pc[cur] = "write"
    /\ \E size \in 1..MaxSize :
          Return(cur, TRUE, "downloaded", [stats EXCEPT !.bytes = @ + size])
    /\ UNCHANGED <<posts, exists, attempts, errors, asyncOnly, crawlVars, mainVars, nameVars>>

NextSync ==
    \/ SyncStart
    \/ SyncCheck
    \/ SyncRequestFails
    \/ SyncOpenFails
    \/ SyncRequestOk
    \/ SyncStreamFails
    \/ SyncWriteFails
    \/ SyncWriteDone

SpecSync == InitSync /\ [][NextSync]_vars

\* ------------------------------- get_user_posts (scraper_selenium.py, scraper.py)

\* the post URLs a listing page may link to, and an article without a post link
PostUrls == {"p1", "p2", "p3"}
NoLink == "nolink"
\* the ?o= offsets a listing page may carry
Offsets == {0, 50, 100, 150}
\* parser.py:159, "Kemono shows 50 posts per page"
PageSize == 50

\* a listing page: the links of its <article> tags in order, the offset of its
\* ">" button (None: no button, or one without ?o=) and the offsets of all its
\* pagination links, the button's among them
Htmls ==
    {h \in [articles : SeqsUpTo(PostUrls \cup {NoLink}, 2),
            next_button : Offsets \cup {None},
            links : SUBSET Offsets] :
        h.next_button # None => h.next_button \in h.links}

Range(s) == {s[k] : k \in 1..Len(s)}

\* parser.py lines 34-43: the loop over the articles, post_urls the list so far
RECURSIVE ParseLoop(_, _)
ParseLoop(links, post_urls) ==
    IF links = <<>> THEN post_urls
    ELSE LET href == Head(links)
         IN  ParseLoop(Tail(links),
                       IF href # NoLink /\ href \notin Range(post_urls)
                       THEN Append(post_urls, href)
                       ELSE post_urls)

\* KemonoParser.parse_user_posts
parse_user_posts(html) == ParseLoop(html.articles, <<>>)

SetMax(S) == CHOOSE x \in S : \A y \in S : y <= x

\* the offset of the ">" button returned whenever the button has one
get_pagination_offset_unchecked(html, current_offset) ==
    IF html.next_button # None
    THEN html.next_button
    ELSE IF SetMax(html.links \cup {current_offset}) > current_offset
         THEN current_offset + PageSize
         ELSE None

\* KemonoParser.get_pagination_offset
get_pagination_offset(html, current_offset) ==
    IF html.next_button # None /\ html.next_button > current_offset
    THEN html.next_button
    ELSE IF SetMax(html.links \cup {current_offset}) > current_offset
         THEN current_offset + PageSize
         ELSE None

\* the posts of a page taken whole
NewPostsAll(posts_, all) == posts_

\* line 89: new_posts = [p for p in posts if p not in all_posts]
NewPosts(posts_, all) == SelectSeq(posts_, LAMBDA p : p \notin Range(all))

\* a loop that stops only when there is no next offset
StopsOnNoneOnly(next_offset, cur_offset) == next_offset = None

\* line 96: if next_offset is None or next_offset == offset: break
Stops(next_offset, cur_offset) == next_offset = None \/ next_offset = cur_offset

\* history: the links of a page added to the list of the URLs seen so far
RECURSIVE FirstSeen(_, _)
FirstSeen(sofar, links) ==
    IF links = <<>> THEN sofar
    ELSE FirstSeen(IF Head(links) = NoLink \/ \E k \in 1..Len(sofar) : sofar[k] = Head(links)
                   THEN sofar ELSE Append(sofar, Head(links)),
                   Tail(links))

engineVars == <<posts, exists, mainPc, stats, pc, outcome, attempts, tally, errors,
                syncOnly, asyncOnly, mainVars, nameVars, ret>>

InitCrawl ==
    /\ posts = [p \in PostIds |-> <<>>]
    /\ exists = [p \in Paths |-> FALSE]
    /\ run = 1
    /\ firstClean = FALSE
    /\ FreshEngine
    /\ NoSync
    /\ crawlPc = "loop"
    /\ all_posts = <<>>
    /\ offset = 0
    /\ page = 1
    /\ extractor \in {"parser", "stub"}
    /\ seen = <<>>
    /\ nexts = <<>>
    /\ offsets = <<>>
    /\ overlapped = FALSE
    /\ crawlFailure = "none"
    /\ accumulated = <<>>
    /\ pageHtml = NoHtml
    /\ NoMain

\* an exception that leaves get_user_posts
HandleErrorRaise(step) ==
    /\ crawlPc' = "raised"
    /\ crawlFailure' = step

\* lines 103-105 and 108: except Exception: log, break; return all_posts
HandleError(step) ==
    /\ crawlPc' = "done"
    /\ crawlFailure' = step

\* lines 76-79, _fetch_page lines 162-183: the fetch fails (_fetch_page catches
\* the exception and returns None) or the page is empty: if not html: break
CrawlFetchFails ==
    /\ crawlPc = "loop"
    /\ Len(offsets) < MaxPages
    /\ offsets' = Append(offsets, offset)
    /\ accumulated' = all_posts
    /\ crawlPc' = "done"
    /\ crawlFailure' = "fetch"
    /\ UNCHANGED <<all_posts, offset, page, extractor, seen, nexts, overlapped, pageHtml,
                   engineVars>>

\* line 82: parse_user_posts raises; the handler of lines 103-105 ends the loop
CrawlParseFails ==
    /\ crawlPc = "loop"
    /\ Len(offsets) < MaxPages
    /\ offsets' = Append(offsets, offset)
    /\ accumulated' = all_posts
    /\ HandleError("posts")
    /\ UNCHANGED <<all_posts, offset, page, extractor, seen, nexts, overlapped, pageHtml,
                   engineVars>>

\* lines 82-95: the page's posts are parsed and added (line 90), then
\* get_pagination_offset raises; the handler of lines 103-105 ends the loop
CrawlOffsetFails ==
    /\ crawlPc = "loop"
    /\ Len(offsets) < MaxPages
    /\ offsets' = Append(offsets, offset)
    /\ accumulated' = all_posts
    /\ \E html \in {h \in Htmls : h.next_button = None /\ h.links = {}} :
          LET posts_ == parse_user_posts(html)
          IN  /\ posts_ # <<>>
              /\ seen' = FirstSeen(seen, html.articles)
              /\ all_posts' = all_posts \o NewPosts(posts_, all_posts)
              /\ overlapped' = (overlapped \/ \E x \in Range(posts_) : x \in Range(all_posts))
    /\ HandleError("offset")
    /\ UNCHANGED <<offset, page, extractor, nexts, pageHtml, engineVars>>

\* lines 82-101: one page is fetched and parsed (a stub extractor does not read
\* the page's pagination links, which are left out for it)
CrawlPage ==
    /\ crawlPc = "loop"
    /\ Len(offsets) < MaxPages
    /\ offsets' = Append(offsets, offset)
    /\ accumulated' = all_posts
    /\ crawlFailure' = "none"
    /\ \E html \in {h \in Htmls : extractor = "stub" => (h.next_button = None /\ h.links = {})} :
          LET posts_ == parse_user_posts(html)
          IN  /\ seen' = FirstSeen(seen, html.articles)
              /\ IF posts_ = <<>>
                 THEN /\ crawlPc' = "done"
                      /\ UNCHANGED <<all_posts, offset, page, nexts, overlapped>>
                 ELSE /\ all_posts' = all_posts \o NewPosts(posts_, all_posts)
                      /\ overlapped' = (overlapped \/ \E x \in Range(posts_) : x \in Range(all_posts))
                      /\ \E next_offset \in
                             (IF extractor = "parser"
                              THEN {get_pagination_offset(html, offset)}
                              ELSE Offsets \cup {None}) :
                            /\ nexts' = Append(nexts, next_offset)
                            /\ IF Stops(next_offset, offset)
                               THEN /\ crawlPc' = "done"
                                    /\ UNCHANGED <<offset, page>>
                               ELSE /\ offset' = next_offset
                                    /\ page' = page + 1
                                    /\ crawlPc' = "loop"
    /\ UNCHANGED <<extractor, pageHtml, engineVars>>

NextCrawl ==
    \/ CrawlFetchFails
    \/ CrawlParseFails
    \/ CrawlOffsetFails
    \/ CrawlPage

SpecCrawl == InitCrawl /\ [][NextCrawl]_vars

\* one call of KemonoParser.get_pagination_offset, as line 95 of
\* scraper_selenium.py makes it: any page, any current offset
InitOffset ==
    /\ posts = [p \in PostIds |-> <<>>]
    /\ exists = [p \in Paths |-> FALSE]
    /\ run = 1
    /\ firstClean = FALSE
    /\ FreshEngine
    /\ NoSync
    /\ crawlPc = "loop"
    /\ all_posts = <<>>
    /\ offset \in Offsets
    /\ page = 1
    /\ extractor = "parser"
    /\ seen = <<>>
    /\ nexts = <<>>
    /\ offsets = <<>>
    /\ overlapped = FALSE
    /\ crawlFailure = "none"
    /\ accumulated = <<>>
    /\ pageHtml \in Htmls
    /\ NoMain

\* line 95: next_offset = self.parser.get_pagination_offset(html, offset)
GetPaginationOffset ==
    /\ nexts = <<>>
    /\ nexts' = <<get_pagination_offset(pageHtml, offset)>>
    /\ UNCHANGED <<crawlPc, all_posts, offset, page, extractor, seen, offsets, overlapped,
                   crawlFailure, accumulated, pageHtml, engineVars>>

NextOffset == GetPaginationOffset

SpecOffset == InitOffset /\ [][NextOffset]_vars

\* ------------------------------------ async_main, phase 2 (main.py lines 66-133)

\* the image URLs parse_post_images may find in a post page (it drops repeats)
MediaLists == {<<>>, <<"a">>, <<"a", "b">>}

\* a post whose extraction gives an entry even when it has no image
process_post_sync_always(idx, images) == [post_id |-> idx, images |-> images]

\* lines 91-98: the dict when images were found, None otherwise
process_post_sync(idx, images) ==
    IF images # <<>> THEN [post_id |-> idx, images |-> images] ELSE NoResult

engineAndCrawl == <<posts, exists, mainPc, stats, pc, outcome, attempts, tally, errors,
                    syncOnly, asyncOnly, crawlVars, mainCtl, nameVars, ret>>

\* line 112 is reached with the post URLs of phase 1, cut to max_posts
InitExtract ==
    /\ posts = [p \in PostIds |-> <<>>]
    /\ exists = [p \in Paths |-> FALSE]
    /\ run = 1
    /\ firstClean = FALSE
    /\ FreshEngine
    /\ NoSync
    /\ NoCrawl
    /\ exPc = "submit"
    /\ nPosts \in 1..MaxPosts
    /\ BeforeExtraction
    /\ NoMainCtl
    /\ NoCall

\* lines 114-117, one executor.submit: the work item is queued; an idle thread
\* is claimed for it, or a new thread is started while fewer than MAX_WORKERS exist
Submit ==
    /\ exPc = "submit"
    /\ submitted < nPosts
    /\ LET t == submitted + 1
       IN  /\ submitted' = t
           /\ fut' = [fut EXCEPT ![t] = "queued"]
           /\ queue' = Append(queue, t)
           /\ exPc' = IF t = nPosts THEN "collect" ELSE "submit"
    /\ IF idleSem > 0
       THEN idleSem' = idleSem - 1 /\ UNCHANGED wstate
       ELSE /\ UNCHANGED idleSem
            /\ IF \E w \in Workers : wstate[w] = "absent"
               THEN LET w == CHOOSE x \in Workers :
                                 wstate[x] = "absent" /\ \A y \in Workers : wstate[y] = "absent" => x <= y
                    IN  wstate' = [wstate EXCEPT ![w] = "idle"]
               ELSE UNCHANGED wstate
    /\ UNCHANGED <<nPosts, result, wtask, thread_scraper, posts_data, extraction, engineAndCrawl>>

\* a worker thread takes the first work item of the queue and enters
\* process_post_sync
TakeTask(w) ==
    /\ wstate[w] = "idle"
    /\ queue # <<>>
    /\ wstate' = [wstate EXCEPT ![w] = "scraper"]
    /\ wtask' = [wtask EXCEPT ![w] = Head(queue)]
    /\ fut' = [fut EXCEPT ![Head(queue)] = "running"]
    /\ queue' = Tail(queue)
    /\ UNCHANGED <<exPc, nPosts, submitted, idleSem, result, thread_scraper, posts_data,
                   extraction, engineAndCrawl>>

\* process_post_sync returns res: the future is done, the thread is idle again
Finish(w, res, how) ==
    /\ result' = [result EXCEPT ![wtask[w]] = res]
    /\ fut' = [fut EXCEPT ![wtask[w]] = "done"]
    /\ extraction' = [extraction EXCEPT ![wtask[w]] = how]
    /\ wstate' = [wstate EXCEPT ![w] = "idle"]
    /\ wtask' = [wtask EXCEPT ![w] = 0]
    /\ idleSem' = idleSem + 1

\* one scraper kept in a global and used by every thread
ScraperShared(w) == 1

\* lines 76 and 80-82: thread_local.scraper, the scraper of the calling thread
ScraperOf(w) == w

\* lines 78-82 and 87: the thread's scraper, created at the thread's first post
ScraperReady(w) ==
    /\ wstate[w] = "scraper"
    /\ thread_scraper' = [thread_scraper EXCEPT ![ScraperOf(w)] = "open"]
    /\ wstate' = [wstate EXCEPT ![w] = "extract"]
    /\ UNCHANGED <<exPc, nPosts, submitted, queue, idleSem, fut, result, wtask, posts_data,
                   extraction, engineAndCrawl>>

\* line 81 raises (no browser): lines 96-98 log it and return None
ScraperFails(w) ==
    /\ wstate[w] = "scraper"
    /\ thread_scraper[ScraperOf(w)] = "none"
    /\ Finish(w, NoResult, "error")
    /\ UNCHANGED <<exPc, nPosts, submitted, queue, thread_scraper, posts_data, engineAndCrawl>>

\* lines 88-89 with get_post_images lines 122-133: the fetch or the parse of the
\* post page fails and get_post_images returns []
ExtractFails(w) ==
    /\ wstate[w] = "extract"
    /\ Finish(w, process_post_sync(wtask[w], <<>>), "error")
    /\ UNCHANGED <<exPc, nPosts, submitted, queue, thread_scraper, posts_data, engineAndCrawl>>

\* lines 88-95: the post page is fetched and parsed
ExtractOk(w) ==
    /\ wstate[w] = "extract"
    /\ \E images \in MediaLists :
          Finish(w, process_post_sync(wtask[w], images),
                 IF images = <<>> THEN "empty" ELSE "media")
    /\ UNCHANGED <<exPc, nPosts, submitted, queue, thread_scraper, posts_data, engineAndCrawl>>

\* lines 121-129, one round of the as_completed loop: a finished future is
\* yielded and its result kept when it is one
Collect ==
    /\ exPc = "collect"
    /\ \E t \in 1..nPosts :
          /\ fut[t] = "done"
          /\ fut' = [fut EXCEPT ![t] = "yielded"]
          /\ posts_data' = IF result[t] # NoResult
                           THEN Append(posts_data, result[t])
                           ELSE posts_data
    /\ UNCHANGED <<exPc, nPosts, submitted, queue, idleSem, result, wstate, wtask,
                   thread_scraper, extraction, engineAndCrawl>>

\* line 112, the end of the with block: every future was yielded, the executor
\* shuts down and its threads end
PoolExit ==
    /\ exPc = "collect"
    /\ \A t \in 1..nPosts : fut[t] = "yielded"
    /\ exPc' = "done"
    /\ wstate' = [w \in Workers |-> IF wstate[w] = "absent" THEN "absent" ELSE "exited"]
    /\ UNCHANGED <<nPosts, submitted, queue, idleSem, fut, result, wtask, thread_scraper,
                   posts_data, extraction, engineAndCrawl>>

NextExtract ==
    \/ Submit
    \/ \E w \in Workers : TakeTask(w)
    \/ \E w \in Workers : ScraperReady(w)
    \/ \E w \in Workers : ScraperFails(w)
    \/ \E w \in Workers : ExtractFails(w)
    \/ \E w \in Workers : ExtractOk(w)
    \/ Collect
    \/ PoolExit

SpecExtract == InitExtract /\ [][NextExtract]_vars

\* ------------------------------------------- async_main (main.py lines 24-164)

\* the exit status of a process ended by an uncaught KeyboardInterrupt
SigintStatus == 130

engineState == <<run, mainPc, batchStart, pauseLeft, pauses, stats, semValue, waiters, sinceLast,
                 pc, sleepLeft, outcome, attempts, slotsTaken, gateVisits, minGap, tally,
                 errors, firstClean, syncOnly, ret>>

\* main has parsed its arguments and asyncio.run enters async_main; the
\* destination directory holds any files; phase 2 is followed as one step here
InitMain ==
    /\ posts = [p \in PostIds |-> <<>>]
    /\ exists \in [Paths -> BOOLEAN]
    /\ run = 1
    /\ firstClean = FALSE
    /\ FreshEngine
    /\ NoSync
    /\ NoCrawl
    /\ exPc = "idle"
    /\ nPosts = 0
    /\ BeforeExtraction
    /\ mPc = "start"
    /\ no_skip_existing \in BOOLEAN
    /\ configSkip = SKIP_EXISTING
    /\ scraper = "none"
    /\ summary = NoSummary
    /\ exitCode = None
    /\ ending = [why |-> "none", at |-> "start"]
    /\ NoCall

\* the process ends with status code
Exit(code, why) ==
    /\ mPc' = "exited"
    /\ exitCode' = code
    /\ ending' = [why |-> why, at |-> mPc]

\* lines 35-37: if args.no_skip_existing: config.SKIP_EXISTING = False
ConfigUpdated == IF no_skip_existing THEN FALSE ELSE configSkip

\* lines 35-42: create_directory returns False: sys.exit(1)
OutputDirFails ==
    /\ mPc = "start"
    /\ configSkip' = ConfigUpdated
    /\ Exit(1, "outdir")
    /\ UNCHANGED <<posts, exists, engineState, crawlVars, nameVars, extractVars, no_skip_existing,
                   scraper, summary>>

\* lines 35-42: the output directory is there
OutputDirOk ==
    /\ mPc = "start"
    /\ configSkip' = ConfigUpdated
    /\ mPc' = "init"
    /\ UNCHANGED <<posts, exists, engineState, crawlVars, nameVars, extractVars, no_skip_existing,
                   scraper, summary, exitCode, ending>>

\* line 46 raises (scraper_selenium.py 44-51); lines 162-164: sys.exit(1)
ScraperInitFails ==
    /\ mPc = "init"
    /\ Exit(1, "client")
    /\ UNCHANGED <<posts, exists, engineState, crawlVars, nameVars, extractVars, no_skip_existing,
                   configSkip, scraper, summary>>

\* lines 46-47: the scraper and the downloader are created
ScraperInitOk ==
    /\ mPc = "init"
    /\ scraper' = "open"
    /\ mPc' = "crawl"
    /\ UNCHANGED <<posts, exists, engineState, crawlVars, nameVars, extractVars, no_skip_existing,
                   configSkip, summary, exitCode, ending>>

\* lines 53-57: get_user_posts returns no post: sys.exit(1)
CrawlEmpty ==
    /\ mPc = "crawl"
    /\ Exit(1, "noposts")
    /\ UNCHANGED <<posts, exists, engineState, crawlVars, nameVars, extractVars, no_skip_existing,
                   configSkip, scraper, summary>>

\* lines 53-64: get_user_posts returns posts
CrawlFound ==
    /\ mPc = "crawl"
    /\ mPc' = "extract"
    /\ UNCHANGED <<posts, exists, engineState, crawlVars, nameVars, extractVars, no_skip_existing,
                   configSkip, scraper, summary, exitCode, ending>>

\* lines 66-140: phase 2 finds no file in any post: return
NoMedia ==
    /\ mPc = "extract"
    /\ Exit(0, "nomedia")
    /\ UNCHANGED <<posts, exists, engineState, crawlVars, nameVars, extractVars, no_skip_existing,
                   configSkip, scraper, summary>>

\* lines 66-147: phase 2 ends with posts_data; download_user_images is called
MediaFound ==
    /\ mPc = "extract"
    /\ \E ps \in PostsInputs :
          /\ TotalImages(ps) > 0
          /\ \A p \in Paths : exists[p] => \E k \in 1..Len(Tasks(ps)) : Tasks(ps)[k] = p
          /\ posts' = ps
    /\ mPc' = "download"
    /\ UNCHANGED <<exists, engineState, crawlVars, nameVars, extractVars, no_skip_existing,
                   configSkip, scraper, summary, exitCode, ending>>

\* lines 147-157: download_user_images returned; print_summary, scraper.close,
\* and async_main returns
Completed ==
    /\ mPc = "download"
    /\ mainPc = "returned"
    /\ summary' = [printed |-> TRUE, stats |-> stats]
    /\ scraper' = "closed"
    /\ Exit(0, "completed")
    /\ UNCHANGED <<posts, exists, engineState, crawlVars, nameVars, extractVars, no_skip_existing,
                   configSkip>>

InTry == mPc \in {"crawl", "extract", "download"}

\* lines 159-161: KeyboardInterrupt is raised inside async_main: log, sys.exit(1)
InterruptCaught ==
    /\ InTry
    /\ Exit(1, "interrupt")
    /\ UNCHANGED <<posts, exists, engineState, crawlVars, nameVars, extractVars, no_skip_existing,
                   configSkip, scraper, summary>>

\* line 223: the interrupt reaches asyncio.run, not the code of async_main (it
\* arrives while the event loop waits; since Python 3.11 asyncio.run cancels
\* the main task on SIGINT and raises KeyboardInterrupt itself): no handler of
\* lines 159-164 runs and main ends with an uncaught KeyboardInterrupt
InterruptEscapes ==
    /\ InTry
    /\ Exit(SigintStatus, "interrupt")
    /\ UNCHANGED <<posts, exists, engineState, crawlVars, nameVars, extractVars, no_skip_existing,
                   configSkip, scraper, summary>>

NextMain ==
    \/ OutputDirFails
    \/ OutputDirOk
    \/ ScraperInitFails
    \/ ScraperInitOk
    \/ CrawlEmpty
    \/ CrawlFound
    \/ NoMedia
    \/ MediaFound
    \/ mPc = "download" /\ StartRun
    \/ mPc = "download" /\ BatchJoin
    \/ mPc = "download" /\ PauseOver
    \/ \E j \in Live : mPc = "download" /\ Begin(j)
    \/ \E j \in Live : mPc = "download" /\ Acquire(j)
    \/ \E j \in Live : mPc = "download" /\ GateWake(j)
    \/ \E j \in Live : mPc = "download" /\ RequestFails(j)
    \/ \E j \in Live : mPc = "download" /\ OpenFails(j)
    \/ \E j \in Live : mPc = "download" /\ RequestOk(j)
    \/ \E j \in Live : mPc = "download" /\ WriteFails(j)
    \/ \E j \in Live : mPc = "download" /\ WriteDone(j)
    \/ mPc = "download" /\ Tick
    \/ Completed
    \/ InterruptCaught
    \/ InterruptEscapes

SpecMain == InitMain /\ [][NextMain]_vars

\* -------------------------- _generate_filename (downloader_async.py 178-202)

\* a string is the sequence of its characters
LowerCase == <<"a", "b", "c", "d", "e", "f", "g", "h", "i", "j", "k", "l", "m", "n", "o", "p", "q", "r", "s", "t", "u", "v", "w", "x", "y", "z">>
UpperCase == <<"A", "B", "C", "D", "E", "F", "G", "H", "I", "J", "K", "L", "M", "N", "O", "P", "Q", "R", "S", "T", "U", "V", "W", "X", "Y", "Z">>
DigitChars == <<"0", "1", "2", "3", "4", "5", "6", "7", "8", "9">>
AlnumChars == Range(LowerCase) \cup Range(UpperCase) \cup Range(DigitChars)

\* utils.py:27, the longest file name sanitize_filename leaves (200 in the
\* source, scaled)
NameLimit == 8
\* line 196: len(original_name) > 5
GoodNameOver == 5

\* the image URLs: a host and directory, a last path segment made of a name
\* and an extension, and a query string
UrlPrefix == <<"h", ".", "c", "/", "d", "/">>
UrlNames == {<<>>,
            <<"x">>,
            <<"a", "b", "c">>,
            <<"a", "b", "c", "d", "e", "f">>,
            <<"a", ":", "b", "*", "c", "d", "e", "f">>,
            <<"a", "b", "c", "d", "e", "f", "g", "h", "i", "j">>,
            <<":", ":", ":", ":", ":", ":">>,
            <<" ", "a", "b", "c", "d", "e">>}
UrlExts == {<<>>,
           <<".", "j", "p", "g">>,
           <<".", "P", "N", "G">>,
           <<".", "t", "x", "t">>,
           <<".">>}
UrlQueries == {<<>>,
              <<"?", "x", "=", "1">>,
              <<"?", "f", "=", "a", "/", "b">>,
              <<"?", "f", "=", "a", "/", "b", "c", "d", "e", "f", "g", ".", "g", "i", "f">>,
              <<"?">>}
Urls == {UrlPrefix \o nm \o ex \o q : nm \in UrlNames, ex \in UrlExts, q \in UrlQueries}
\* index of enumerate(images, 1)
Indexes == {7, 12, 1000}

\* the positions of character c in s
Positions(s, c) == {k \in 1..Len(s) : s[k] = c}
SetMin(S) == CHOOSE x \in S : \A y \in S : x <= y

\* s.split(c)[-1]: what follows the last c, or s when it has none
SplitLast(s, c) ==
    IF Positions(s, c) = {} THEN s ELSE SubSeq(s, SetMax(Positions(s, c)) + 1, Len(s))

\* s.split(c)[0]: what precedes the first c, or s when it has none
SplitFirst(s, c) ==
    IF Positions(s, c) = {} THEN s ELSE SubSeq(s, 1, SetMin(Positions(s, c)) - 1)

\* str.lower, character by character
Lower(c) ==
    IF \E k \in 1..Len(UpperCase) : UpperCase[k] = c
    THEN LowerCase[CHOOSE k \in 1..Len(UpperCase) : UpperCase[k] = c]
    ELSE c
LowerStr(s) == [k \in 1..Len(s) |-> Lower(s[k])]

\* the matches of \.([a-zA-Z0-9]+)(?:\?|$) in s: <<i, j>> with a dot at i, the
\* letters and digits of group 1 from i+1 to j, and the end of s or a ? after j
ExtMatches(s) ==
    {m \in (1..Len(s)) \X (1..Len(s)) :
        /\ s[m[1]] = "."
        /\ m[1] < m[2]
        /\ \A k \in (m[1] + 1)..m[2] : s[k] \in AlnumChars
        /\ (m[2] = Len(s) \/ s[m[2] + 1] = "?")}

ImageExts == {<<"j", "p", "g">>, <<"j", "p", "e", "g">>, <<"p", "n", "g">>, <<"g", "i", "f">>,
              <<"w", "e", "b", "p">>, <<"b", "m", "p">>, <<"s", "v", "g">>}
DefaultExt == <<".", "p", "n", "g">>

\* utils.get_file_extension (lines 51-69): re.search takes the leftmost match
get_file_extension(u) ==
    IF ExtMatches(u) = {} THEN DefaultExt
    ELSE LET i == SetMin({m[1] : m \in ExtMatches(u)})
             j == CHOOSE k \in 1..Len(u) : <<i, k>> \in ExtMatches(u)
             ext == LowerStr(SubSeq(u, i + 1, j))
         IN  IF ext \in ImageExts THEN <<".">> \o ext ELSE DefaultExt

\* the characters lines 23 and 25 of utils.py remove
InvalidChars == {"<", ">", ":", "\"", "/", "\\", "|", "?", "*"}
ControlChars == {"\t", "\n", "\r"}
\* the characters str.strip removes at both ends
Whitespace == {" ", "\t", "\n", "\r"}

\* os.path.splitext: the extension starts at the last dot, unless only dots
\* precede it
SplitExtAt(s) ==
    LET dots == Positions(s, ".")
    IN  IF dots = {} THEN Len(s) + 1
        ELSE LET d == SetMax(dots)
             IN  IF \A k \in 1..(d - 1) : s[k] = "." THEN Len(s) + 1 ELSE d

\* lines 27-29: name[:200 - len(ext)] + ext, a slice with a negative end
\* counting from the end of name
Truncate(s) ==
    IF Len(s) > NameLimit
    THEN LET d == SplitExtAt(s)
             name == SubSeq(s, 1, d - 1)
             ext == SubSeq(s, d, Len(s))
             keep == NameLimit - Len(ext)
             upto == IF keep >= 0 THEN Min(keep, Len(name))
                     ELSE IF Len(name) + keep > 0 THEN Len(name) + keep ELSE 0
         IN  SubSeq(name, 1, upto) \o ext
    ELSE s

RECURSIVE StripLeft(_)
StripLeft(s) == IF s # <<>> /\ Head(s) \in Whitespace THEN StripLeft(Tail(s)) ELSE s
RECURSIVE StripRight(_)
StripRight(s) ==
    IF s # <<>> /\ s[Len(s)] \in Whitespace THEN StripRight(SubSeq(s, 1, Len(s) - 1)) ELSE s

\* utils.sanitize_filename (lines 12-30)
sanitize_filename(s) ==
    StripRight(StripLeft(Truncate(
        SelectSeq(s, LAMBDA c : c \notin InvalidChars /\ c \notin ControlChars))))

\* the decimal digits of n
RECURSIVE DigitsOf(_)
DigitsOf(n) ==
    IF n < 10 THEN <<DigitChars[n + 1]>>
    ELSE Append(DigitsOf(n \div 10), DigitChars[(n % 10) + 1])

\* f"{index:03d}"
Pad3(n) ==
    LET d == DigitsOf(n)
    IN  IF Len(d) >= 3 THEN d ELSE [k \in 1..(3 - Len(d)) |-> "0"] \o d

ImagePrefix == <<"i", "m", "a", "g", "e", "_">>

\* line 190: original_name = url.split('/')[-1].split('?')[0]
original_name(u) == SplitFirst(SplitLast(u, "/"), "?")

\* AsyncImageDownloader._generate_filename (lines 178-202)
generate_filename(u, idx) ==
    LET ext == get_file_extension(u)
    IN  IF original_name(u) # <<>> /\ Len(original_name(u)) > GoodNameOver
        THEN sanitize_filename(original_name(u))
        ELSE ImagePrefix \o Pad3(idx) \o ext

InitName ==
    /\ posts = [p \in PostIds |-> <<>>]
    /\ exists = [p \in Paths |-> FALSE]
    /\ run = 1
    /\ firstClean = FALSE
    /\ FreshEngine
    /\ NoSync
    /\ NoCrawl
    /\ exPc = "idle"
    /\ nPosts = 0
    /\ BeforeExtraction
    /\ NoMainCtl
    /\ url \in Urls
    /\ index \in Indexes
    /\ filename = NoName

\* line 137 of download_image: filename = self._generate_filename(url, index)
GenerateFilename ==
    /\ filename = NoName
    /\ filename' = generate_filename(url, index)
    /\ UNCHANGED <<url, index, posts, exists, engineState, crawlVars, mainVars>>

NextName == GenerateFilename

SpecName == InitName /\ [][NextName]_vars

\* --------------------------------------------------- claims: the async engine

Counted == stats.downloaded + stats.skipped + stats.failed

\* the jobs that hold a concurrency slot
Holding == {j \in Live : pc[j] \in {"sleep", "request", "write"}}

\* the batch the claim puts job j in: consecutive groups of BATCH_SIZE
GroupOf(j) == (j - 1) \div BATCH_SIZE

\* C1: in every state of a run of AsyncImageDownloader on a fresh engine
\* downloaded + skipped + failed <= total, and = total once the run has returned.
C1_CountsWithinTotal ==
    /\ Counted <= stats.total
    /\ mainPc = "returned" => Counted = stats.total

\* a run returned in which jobs were downloaded, skipped and failed
C1_Witness ==
    /\ mainPc = "returned"
    /\ stats.downloaded > 0
    /\ stats.skipped > 0
    /\ stats.failed > 0

\* C2: two successive jobs never leave the rate gate less than RATE_LIMIT_DELAY
\* apart (the claim as stated; the code lets two sleeping jobs wake together).
C2_StartsSpaced == minGap >= RATE_LIMIT_DELAY

\* C3: at most MAX_CONCURRENT_DOWNLOADS jobs hold a slot (at the rate gate,
\* requesting or writing) in every state.
C3_SlotsBounded == Cardinality(Holding) <= MAX_CONCURRENT_DOWNLOADS

\* every slot is taken and a further job of the batch waits for one
C3_Witness ==
    /\ Cardinality(Holding) = MAX_CONCURRENT_DOWNLOADS
    /\ \E j \in Live : pc[j] = "waitslot"

\* C4: jobs start in submission order, in consecutive groups of BATCH_SIZE, and
\* no job of a later group has begun any step while a job of an earlier group
\* has no outcome.
C4_BatchBarrier ==
    \A i, j \in Live :
        /\ (i < j /\ pc[j] # "created") => pc[i] # "created"
        /\ (GroupOf(i) < GroupOf(j) /\ pc[j] # "created") =>
               (pc[i] = "done" /\ outcome[i] # "none")

\* the second batch runs, and in the first batch a later job finished while an
\* earlier one had not: within a batch the order is free
C4_Witness ==
    /\ run = 1
    /\ pc[BATCH_SIZE + 1] \in {"sleep", "request", "write"}
    /\ outcome[1] # "skipped"
    /\ outcome[2] = "failed_request"
    /\ outcome[3] = "downloaded"

\* C6: a job of the async engine is reported Failed for a transport error only
\* after MAX_RETRIES attempts (the claim as stated; the code makes one attempt).
C6_FailedAfterMaxRetries ==
    \A j \in Live : outcome[j] = "failed_request" => attempts[j] = MAX_RETRIES

\* C7: a job recorded as Skipped acquired no slot, did not read or set the
\* rate-gate timestamp and issued no request.
C7_SkipIsFree ==
    \A j \in Live :
        outcome[j] = "skipped" =>
            (slotsTaken[j] = 0 /\ gateVisits[j] = 0 /\ attempts[j] = 0)

\* a job was skipped while every slot was held by other jobs
C7_Witness ==
    /\ semValue = 0
    /\ \E j \in Live : outcome[j] = "skipped" /\ pc[j] = "done"
    /\ Cardinality(Holding) = MAX_CONCURRENT_DOWNLOADS

SecondRunAllSkipped ==
    /\ stats.downloaded = 0
    /\ stats.bytes = 0
    /\ \A j \in Live : attempts[j] = 0
    /\ mainPc = "returned" => stats.skipped = stats.total

C5_RetryThenOutcome ==
    \A j \in Live :
        /\ attempts[j] <= MAX_RETRIES
        /\ errors[j] <= MAX_RETRIES
        /\ (pc[j] = "done" /\ errors[j] = MAX_RETRIES - 1 /\ outcome[j] # "failed_file") =>
               (outcome[j] = "downloaded" /\ tally[j].failed = 0 /\ exists[PathOf(j)])
        /\ (pc[j] = "done" /\ attempts[j] > 0 /\ errors[j] = attempts[j]) =>
               (attempts[j] = MAX_RETRIES /\ outcome[j] = "failed_request"
                   /\ tally[j].failed = 1 /\ tally[j].downloaded = 0)
        /\ outcome[j] = "failed_request" => (errors[j] = MAX_RETRIES /\ tally[j].failed = 1)

\* one job was downloaded by its last attempt after MAX_RETRIES - 1 failed
\* requests, another failed after MAX_RETRIES failed requests
C5_Witness ==
    \E j, k \in Live :
        /\ outcome[j] = "downloaded"
        /\ attempts[j] = MAX_RETRIES
        /\ errors[j] = MAX_RETRIES - 1
        /\ outcome[k] = "failed_request"
        /\ attempts[k] = MAX_RETRIES
        /\ errors[k] = MAX_RETRIES

\* ---------------------------------------------------------- claims: the crawl

NoDuplicates(s) == \A h, k \in 1..Len(s) : s[h] = s[k] => h = k

\* C9: the list get_user_posts builds holds every post URL the pages linked,
\* each once, in the order in which each was first seen.
C9_EachOnceInFirstSeenOrder ==
    /\ NoDuplicates(all_posts)
    /\ Range(all_posts) = Range(seen)
    /\ all_posts = seen

\* the crawl ended after pages that linked the same post again, with every
\* post URL found
C9_Witness ==
    /\ crawlPc = "done"
    /\ overlapped
    /\ Len(offsets) >= 3
    /\ Range(all_posts) = PostUrls

\* every iteration so far reached the extractor, which returned c each time
ConstantNext(c) ==
    /\ nexts # <<>>
    /\ Len(nexts) = Len(offsets)
    /\ \A k \in 1..Len(nexts) : nexts[k] = c

\* C10: with an extractor that returns the same next offset c for every page
\* (each page with posts), the loop runs at most one iteration after the first
\* iteration made at offset c, and has ended after that one.
C10_ConstantOffsetTerminates ==
    \A c \in Offsets :
        ConstantNext(c) =>
            /\ Len(offsets) >= 2 => \E k \in 1..Len(offsets) : offsets[k] = c
            /\ \A k \in 1..Len(offsets) :
                   offsets[k] = c =>
                       /\ Len(offsets) <= k + 1
                       /\ Len(offsets) = k + 1 => crawlPc = "done"

\* a stub returned the same positive offset twice and the crawl ended
C10_Witness ==
    /\ extractor = "stub"
    /\ crawlPc = "done"
    /\ \E c \in Offsets \ {0} : ConstantNext(c) /\ offsets = <<0, c>>

\* C11: the crawl goes on to another page only when the next offset the
\* extractor returned is strictly greater than the current offset, so the
\* offsets of the iterations are strictly increasing (the claim as stated; the
\* code stops only on None or on an offset equal to the current one).
C11_ContinuesOnlyOnGreater ==
    /\ \A k \in 1..Len(nexts) :
           (nexts[k] # None /\ nexts[k] <= offsets[k]) =>
               (Len(offsets) = k /\ crawlPc = "done")
    /\ \A k \in 1..(Len(offsets) - 1) : offsets[k] < offsets[k + 1]

\* the list is what it was before the failed iteration
ListUntouched == all_posts = accumulated

\* the list is what it was before the failed iteration followed by posts of the
\* failed page
ListExtended ==
    /\ Len(accumulated) <= Len(all_posts)
    /\ SubSeq(all_posts, 1, Len(accumulated)) = accumulated

\* C12 as stated: when fetching or parsing a listing page fails the loop has
\* stopped, get_user_posts returned without an exception, and the list is the
\* one accumulated from the pages before, unchanged by the failed page.
C12_FailureReturnsEarlierPages ==
    /\ crawlPc # "raised"
    /\ crawlFailure # "none" => (crawlPc = "done" /\ ListUntouched)

\* C12 amended: a failure of any step of an iteration stops the loop and
\* get_user_posts returns without an exception; the list is the one accumulated
\* before when the fetch or parse_user_posts failed, and also holds the new
\* posts of the failed page when get_pagination_offset failed.
C12_FailureReturnsAccumulated ==
    /\ crawlPc # "raised"
    /\ crawlFailure # "none" => crawlPc = "done"
    /\ crawlFailure \in {"fetch", "posts"} => ListUntouched
    /\ crawlFailure = "offset" => ListExtended

\* parse_user_posts failed on the third page or later, after posts were found
C12_Witness ==
    /\ crawlFailure = "posts"
    /\ crawlPc = "done"
    /\ Len(offsets) >= 3
    /\ Len(all_posts) >= 2
    /\ all_posts = accumulated

\* ----------------------------------------------------- claims: async_main

\* the entries of posts_data for post t
EntriesOf(t) == {k \in 1..Len(posts_data) : posts_data[k].post_id = t}

\* C13: a failed extraction of one post does not end phase 2: while the phase
\* is not over a step is possible, at its end every post was processed, and
\* posts_data holds exactly one entry, with the media found, for each post
\* collected whose extraction found media, and none for a failed or empty post.
C13_FailuresIsolated ==
    /\ exPc \in {"submit", "collect"} => ENABLED NextExtract
    /\ exPc = "done" => \A t \in 1..nPosts : extraction[t] # "none"
    /\ \A t \in PostIdx :
          /\ Cardinality(EntriesOf(t)) =
                 IF fut[t] = "yielded" /\ extraction[t] = "media" THEN 1 ELSE 0
          /\ \A k \in EntriesOf(t) : posts_data[k] = result[t] /\ posts_data[k].images # <<>>

\* phase 2 ended with a failed post, a post without media and a post with media
C13_Witness ==
    /\ exPc = "done"
    /\ \E t, u, v \in 1..nPosts :
          /\ extraction[t] = "error"
          /\ extraction[u] = "empty"
          /\ extraction[v] = "media"
          /\ t < v
    /\ Len(posts_data) = 1

\* C14: when an interrupt ended the process during the downloads, the summary
\* was printed with the statistics accumulated so far (the claim as stated; no
\* path of the code prints it after an interrupt).
C14_InterruptPrintsSummary ==
    (ending.why = "interrupt" /\ ending.at = "download") =>
        (summary.printed /\ summary.stats = stats)

\* C15: the exit status is 0 when the run downloaded to completion or found no
\* media, and 1 when the crawl returned no post, the output directory or the
\* scraper could not be created, or the run was interrupted (the claim as
\* stated; an interrupt that reaches asyncio.run ends the process otherwise).
C15_ExitCodes ==
    mPc = "exited" =>
        exitCode = IF ending.why \in {"completed", "nomedia"} THEN 0 ELSE 1

\* C16: with --no-skip-existing no job is recorded as skipped (the claim as
\* stated; the engine reads the SKIP_EXISTING it imported, not config's).
C16_FlagDisablesSkip ==
    no_skip_existing => \A j \in Live : outcome[j] # "skipped"

\* C17: a second invocation of download_user_images on the same engine counts
\* only its own jobs: at its completion downloaded + skipped + failed = total
\* (the claim as stated; the code keeps the counters of the first invocation).
C17_SecondInvocationCountsItsOwn ==
    (run = 2 /\ mainPc = "returned") => Counted = stats.total

\* ------------------------------------------------ claims: _generate_filename

\* the last path segment of the URL, the query string ignored
PathSegment(u) == SplitLast(SplitFirst(u, "?"), "/")

\* C18: _generate_filename returns the sanitized last path segment of the URL,
\* the query string ignored, when that segment is longer than 5 characters, and
\* image_ + the index padded to 3 digits + the extension otherwise, for every
\* URL (the claim as stated; the code cuts at the last '/' of the whole URL).
C18_NameFromPathSegment ==
    filename # NoName =>
        filename = IF PathSegment(url) # <<>> /\ Len(PathSegment(url)) > GoodNameOver
                   THEN sanitize_filename(PathSegment(url))
                   ELSE ImagePrefix \o Pad3(index) \o get_file_extension(url)

\* ------------------------------------------- claims: failures of the file

\* C19: a job whose destination file could not be opened or written has ended,
\* counted failed once and neither downloaded nor skipped; bytes are counted
\* for downloaded files only; the job gave its slot back; the run leaves
\* download_user_images by returning, with every job ended with an outcome.
C19_FileFailureIsLocal ==
    /\ \A j \in Live :
          outcome[j] = "failed_file" =>
              (pc[j] = "done" /\ tally[j] = [downloaded |-> 0, skipped |-> 0, failed |-> 1])
    /\ stats.bytes <= MaxSize * stats.downloaded
    /\ mainPc \in {"init", "gather", "pause", "returned"}
    /\ semValue + Cardinality(Holding) = MAX_CONCURRENT_DOWNLOADS
    /\ mainPc = "returned" => \A j \in Live : pc[j] = "done" /\ outcome[j] # "none"

\* a run of two batches returned: the first job could not write its file, the
\* jobs after it ran, the one of the second batch was downloaded
C19_Witness ==
    /\ run = 1
    /\ mainPc = "returned"
    /\ outcome[1] = "failed_file"
    /\ stats.failed = 1
    /\ NumTasks > BATCH_SIZE
    /\ outcome[NumTasks] = "downloaded"
    /\ stats.bytes = stats.downloaded

\* ------------------------------------ claims: what download_user_images returns

\* C20: when download_user_images has returned, the value returned is the
\* statistics record of the run (the claim as stated; the async engine returns
\* the number of downloaded files).
C20_ReturnsStatistics ==
    mainPc = "returned" => (ret.type = "dict" /\ ret.dict = stats)

\* ------------------------------------ claims: one outcome per job, sync engine

\* C21: in ImageDownloader every ended job added one to exactly one of
\* downloaded, skipped and failed, a skipped job to skipped alone, and
\* downloaded + skipped + failed = total when the run has returned (the claim
\* as stated; the code counts a skipped job as downloaded too).
C21_OneCounterPerJob ==
    /\ \A j \in Live :
          /\ pc[j] = "done" => tally[j].downloaded + tally[j].skipped + tally[j].failed = 1
          /\ outcome[j] = "skipped" => tally[j] = [downloaded |-> 0, skipped |-> 1, failed |-> 0]
    /\ mainPc = "returned" => Counted = stats.total

\* ------------------------------------------- claims: the order of a job's steps

\* where a job stands tells what it has done: nothing before it holds a slot;
\* a slot and one reading of the gate while it sleeps at the gate; one request
\* besides once it requests or writes; and the semaphore counts the holders
C22_Positions ==
    /\ \A j \in Live :
          LET done == <<slotsTaken[j], gateVisits[j], attempts[j]>>
          IN  /\ pc[j] \in {"created", "ready", "waitslot"} => done = <<0, 0, 0>>
              /\ pc[j] = "sleep" => done = <<1, 1, 0>>
              /\ pc[j] \in {"request", "write"} => done = <<1, 1, 1>>
              /\ pc[j] = "done" =>
                     done = IF outcome[j] = "skipped" THEN <<0, 0, 0>> ELSE <<1, 1, 1>>
    /\ semValue = MAX_CONCURRENT_DOWNLOADS - Cardinality(Holding)

\* a step that takes a slot is made by a job that found no file and takes a
\* free slot; a step that issues a request is made by a job that holds a slot
\* and either read the gate open in this step or slept the rest of the delay,
\* and sets the timestamp; the step that ends the job gives the slot back
C22_Step ==
    \A j \in Live :
        /\ slotsTaken'[j] # slotsTaken[j] =>
               /\ pc[j] \in {"ready", "waitslot"}
               /\ pc[j] = "ready" => ~ exists[PathOf(j)]
               /\ semValue > 0
               /\ semValue' = semValue - 1
               /\ gateVisits'[j] = 1
        /\ attempts'[j] # attempts[j] =>
               /\ pc'[j] = "request"
               /\ slotsTaken'[j] = 1
               /\ gateVisits'[j] = 1
               /\ sinceLast' = 0
               /\ \/ pc[j] = "sleep" /\ sleepLeft[j] = 0
                  \/ pc[j] \in {"ready", "waitslot"} /\ sinceLast >= RATE_LIMIT_DELAY
        /\ (pc[j] \in {"request", "write"} /\ pc'[j] # pc[j]) =>
               \/ pc[j] = "request" /\ pc'[j] = "write" /\ semValue' = semValue
               \/ pc'[j] = "done" /\ semValue' = semValue + 1

\* C22: no job of AsyncImageDownloader issues its request unless it holds a
\* slot and passed the rate gate after it acquired the slot; a job that is not
\* skipped goes through the existing-file check, the acquisition of a slot, the
\* rate gate with the update of the timestamp, the request, and the release of
\* the slot, in this order.
C22_CheckSlotGateRequest == []C22_Positions /\ [][C22_Step]_vars

\* a job after the first MAX_CONCURRENT_DOWNLOADS has just issued its request,
\* the timestamp set, while every slot is held
C22_Witness ==
    \E j \in Live :
        /\ pc[j] = "request"
        /\ j > MAX_CONCURRENT_DOWNLOADS
        /\ sinceLast = 0
        /\ Cardinality(Holding) = MAX_CONCURRENT_DOWNLOADS

\* --------------------------------------------- claims: the pauses between batches

\* ceil(n / BATCH_SIZE)
NumBatches(n) == (n + BATCH_SIZE - 1) \div BATCH_SIZE

\* C23: _download_with_batches pauses after every batch but the last: a call
\* with n > 0 jobs has made ceil(n / BATCH_SIZE) - 1 pauses when it returns; a
\* pause begins only when every job up to the end of its batch has ended and
\* no later job has started, and a job of batch k starts only after k pauses
\* are over.
C23_PauseBetweenBatches ==
    /\ pauses = (batchStart \div BATCH_SIZE) + (IF mainPc = "pause" THEN 1 ELSE 0)
    /\ mainPc = "returned" =>
           pauses = IF NumTasks > 0 THEN NumBatches(NumTasks) - 1 ELSE 0
    /\ mainPc = "pause" =>
           /\ pauseLeft <= BATCH_PAUSE
           /\ \A j \in Live :
                  IF j <= batchStart + BATCH_SIZE
                  THEN pc[j] = "done" /\ outcome[j] # "none"
                  ELSE pc[j] = "created"
    /\ \A j \in Live :
           pc[j] # "created" =>
               /\ pauses >= GroupOf(j)
               /\ (pauses = GroupOf(j) => mainPc # "pause")

\* a run of two batches, the first a full one, has returned after one pause; the
\* jobs were downloaded, none skipped
C23_Witness ==
    /\ mainPc = "returned"
    /\ NumTasks = BATCH_SIZE + 1
    /\ pauses = 1
    /\ stats.downloaded = NumTasks

\* ------------------------------------------- claims: no counter update is lost

\* the jobs that have ended with outcome o
Ended(o) == {j \in Live : outcome[j] = o}

\* the jobs that get outcome o in this step
Ending(o) == {j \in Live : outcome[j] = "none" /\ outcome'[j] = o}

\* each counter is the number of jobs that ended with its outcome, and the
\* bytes lie between the least and the largest sum of that many file sizes
C24_Counters ==
    /\ stats.skipped = Cardinality(Ended("skipped"))
    /\ stats.failed = Cardinality(Ended("failed_request") \cup Ended("failed_file"))
    /\ stats.downloaded = Cardinality(Ended("downloaded"))
    /\ stats.downloaded <= stats.bytes
    /\ stats.bytes <= MaxSize * stats.downloaded

\* every step adds to each counter the number of jobs that get its outcome in
\* that step; bytes grows by the size of a file (1..MaxSize) in a step in which
\* a job ends downloaded and in no other step
C24_Step ==
    /\ stats'.skipped = stats.skipped + Cardinality(Ending("skipped"))
    /\ stats'.failed = stats.failed
                       + Cardinality(Ending("failed_request") \cup Ending("failed_file"))
    /\ stats'.downloaded = stats.downloaded + Cardinality(Ending("downloaded"))
    /\ IF Ending("downloaded") = {}
       THEN stats'.bytes = stats.bytes
       ELSE /\ Cardinality(Ending("downloaded")) = 1
            /\ stats'.bytes - stats.bytes \in 1..MaxSize

\* C24: under every interleaving of the jobs of one run of AsyncImageDownloader
\* no counter update is lost: skipped, failed and downloaded are the numbers of
\* jobs that ended with that outcome, and bytes is the sum of the sizes of the
\* files of the downloaded jobs, each size added in the step that ended its job.
C24_NoLostUpdate == []C24_Counters /\ [][C24_Step]_vars

\* a run of two batches has returned whose jobs ended in each way, two of them
\* downloaded
C24_Witness ==
    /\ mainPc = "returned"
    /\ NumTasks > BATCH_SIZE
    /\ outcome[1] = "downloaded"
    /\ outcome[2] = "failed_request"
    /\ outcome[3] = "skipped"
    /\ outcome[NumTasks] = "downloaded"
    /\ stats.bytes = 2

\* ------------------------------------------------------- claims: termination

\* C25: when the event loop runs what is ready, time passes and every request
\* and write returns or fails, every job submitted to download_user_images
\* eventually has an outcome and the call eventually returns, for runs smaller
\* and larger than BATCH_SIZE and MAX_CONCURRENT_DOWNLOADS.
C25_RunTerminates ==
    <>(mainPc = "returned" /\ \A j \in Live : pc[j] = "done" /\ outcome[j] # "none")

\* a run of MaxJobs jobs, none skipped, has returned after a pause: jobs waited
\* for one of the MAX_CONCURRENT_DOWNLOADS slots, and a request had failed
C25_Witness ==
    /\ mainPc = "returned"
    /\ NumTasks = MaxJobs
    /\ pauses >= 1
    /\ \A j \in Live : slotsTaken[j] = 1
    /\ stats.failed >= 1

\* ---------------------------------------------- claims: get_pagination_offset

\* C26: get_pagination_offset(html, current_offset) returns None or an integer
\* greater than current_offset: the offset of the ">" button when it is greater
\* than current_offset, otherwise current_offset + 50 when some pagination link
\* has an offset greater than current_offset, otherwise None.
C26_NextOffsetAdvances ==
    nexts # <<>> =>
        LET r == nexts[1]
            button == pageHtml.next_button
        IN  /\ r = None \/ (r \in Int /\ r > offset)
            /\ (button # None /\ button > offset) => r = button
            /\ (~ (button # None /\ button > offset) /\ \E o \in pageHtml.links : o > offset) =>
                   r = offset + 50
            /\ (~ (button # None /\ button > offset) /\ ~ \E o \in pageHtml.links : o > offset) =>
                   r = None

\* the call was made on a page whose ">" button points back while another link
\* points forward, and it returned current_offset + 50
C26_Witness ==
    /\ nexts # <<>>
    /\ pageHtml.next_button # None
    /\ pageHtml.next_button <= offset
    /\ \E o \in pageHtml.links : o > offset
    /\ nexts[1] = offset + 50
    /\ offset > 0

\* ------------------------------------------- claims: the extraction workers

\* the worker threads inside process_post_sync
Busy == {w \in Workers : wstate[w] \in {"scraper", "extract"}}

\* how often post t stands in the work queue, and the threads processing it
TimesQueued(t) == Cardinality({k \in 1..Len(queue) : queue[k] = t})
ProcessedBy(t) == {w \in Busy : wtask[w] = t}

\* at most MAX_WORKERS posts are in extraction; a submitted post is in the queue
\* once, or with one thread, or processed; a post not yet submitted is nowhere;
\* two threads never use the same scraper at the same time; at the end of the
\* phase every post of the list was submitted and processed
C27_Placed ==
    /\ Cardinality({t \in PostIdx : fut[t] = "running"}) <= MAX_WORKERS
    /\ Cardinality(Busy) = Cardinality({t \in PostIdx : fut[t] = "running"})
    /\ submitted <= nPosts
    /\ \A t \in PostIdx :
          LET placed == <<TimesQueued(t), Cardinality(ProcessedBy(t))>>
          IN  /\ fut[t] # "none" <=> t <= submitted
              /\ fut[t] = "queued" => placed = <<1, 0>>
              /\ fut[t] = "running" => placed = <<0, 1>>
              /\ fut[t] \in {"none", "done", "yielded"} => placed = <<0, 0>>
              /\ fut[t] \in {"done", "yielded"} <=> extraction[t] # "none"
    /\ \A v, w \in Workers :
          (v # w /\ wstate[v] = "extract" /\ wstate[w] = "extract") =>
              ScraperOf(v) # ScraperOf(w)
    /\ exPc = "done" =>
           /\ submitted = nPosts
           /\ \A t \in 1..nPosts : fut[t] = "yielded" /\ extraction[t] # "none"

\* a post goes from submitted to processed and collected, never back: once
\* its extraction has ended it is not taken again
C27_Step ==
    \A t \in PostIdx :
        /\ extraction[t] # "none" => extraction'[t] = extraction[t]
        /\ fut[t] # fut'[t] =>
               <<fut[t], fut'[t]>> \in {<<"none", "queued">>, <<"queued", "running">>,
                                        <<"running", "done">>, <<"done", "yielded">>}

\* C27: in phase 2 of async_main at most MAX_WORKERS (5 in the source) posts
\* are in extraction at the same time, every post URL of the list is submitted
\* and processed exactly once, and no scraper is used by two workers at the same
\* time, in whatever order the extractions end.
C27_PoolBoundedOncePrivate == []C27_Placed /\ [][C27_Step]_vars

\* every worker thread extracts a post with its own scraper, the second thread
\* the first post, while a later post waits in the queue
C27_Witness ==
    /\ nPosts = MaxPosts
    /\ \A w \in Workers : wstate[w] = "extract"
    /\ queue # <<>>
    /\ wtask[1] > wtask[2]
    /\ \A w \in Workers : thread_scraper[w] = "open"

\* ------------------------------------------------ claims: the slots come back

\* C28: every slot a job of AsyncImageDownloader acquired is released on every
\* way out of the job: the free slots and the jobs inside the semaphore's block
\* always add up to MAX_CONCURRENT_DOWNLOADS, whatever the jobs that ended did,
\* all slots are free during a pause and when the run has returned, and no job
\* is left waiting for a slot.
C28_SlotsReleased ==
    /\ semValue >= 0
    /\ semValue = MAX_CONCURRENT_DOWNLOADS - Cardinality(Holding)
    /\ \A j \in Live : pc[j] = "done" => (j \notin Holding /\ slotsTaken[j] <= 1)
    /\ mainPc \in {"init", "pause", "returned"} =>
           (semValue = MAX_CONCURRENT_DOWNLOADS /\ waiters = <<>>)

\* after a failed request and a failed write in the first batch, the job of
\* the second batch holds a slot and the other slot is free
C28_Witness ==
    /\ outcome[1] = "failed_request"
    /\ outcome[2] = "failed_file"
    /\ pc[3] = "done"
    /\ NumTasks > BATCH_SIZE
    /\ pc[BATCH_SIZE + 1] = "write"
    /\ semValue = MAX_CONCURRENT_DOWNLOADS - 1

\* --------------------------------------- claims: what a failed job leaves behind

\* no other job of the run has the destination path of job j
OwnPath(j) == \A i \in Live : PathOf(i) = PathOf(j) => i = j

\* C29: a job that ended Failed leaves no file at its destination path, also
\* when it failed after the file was opened for writing (the claim as stated;
\* the code leaves the file it opened where it is).
C29_FailedLeavesNoFile ==
    \A j \in Live : (Failed(outcome[j]) /\ OwnPath(j)) => ~ exists[PathOf(j)]

\* ------------------------------------- claims: one writer per destination file

\* the jobs that have their destination file open for writing
Writing == {j \in Live : pc[j] = "write"}

\* C30: no two jobs of a run of AsyncImageDownloader have the same destination
\* path open for writing at the same time, also when distinct URLs of a post
\* have the same last path segment (the claim as stated; the code gives such
\* URLs the same path and lets their jobs write together).
C30_OneWriterPerPath ==
    \A i, j \in Writing : PathOf(i) = PathOf(j) => i = j

\* ------------------------------------------ claims: the scrapers of a run closed

\* C31: when async_main has ended, by completion, by the return of a run that
\* found no media, by the exit of a run that found no posts, by a fatal error
\* or by an interrupt, the scraper it created is not left open (the claim as
\* stated; the code closes the scraper on the path of completion only).
C31_ScrapersClosed ==
    mPc = "exited" => scraper # "open"

\* the same for the path of completion alone, where line 157 has run
C31_ClosedOnCompletion ==
    (mPc = "exited" /\ ending.why = "completed") => scraper = "closed"

\* the scrapers of the worker threads when the pool of phase 2 has been left:
\* no statement of the program calls cleanup_thread_scraper
C31_ThreadScrapersClosed ==
    exPc = "done" => \A w \in Workers : thread_scraper[w] # "open"

\* ------------------------------------------------ claims: the name is not empty

\* C32: the filename returned by _generate_filename is not empty, for every
\* URL and index, also when the last path segment of the URL is longer than
\* 5 characters and made only of characters that sanitize_filename removes
\* (the claim as stated; the code returns what sanitize_filename leaves of
\* such a segment, the empty string).
C32_NameNotEmpty ==
    filename # NoName => filename # <<>>

\* the same for the URLs whose segment keeps a character under
\* sanitize_filename, and for those with a segment of at most 5 characters
C32_NotEmptyWhenSomethingLeft ==
    (/\ filename # NoName
     /\ \/ Len(original_name(url)) <= GoodNameOver
        \/ sanitize_filename(original_name(url)) # <<>>)
        => filename # <<>>

====
